---- MODULE Spec2Model ----
(***************************************************************************)
(* Trussness of the edges of an undirected graph: igraph_trussness and its *)
(* helpers (src/src/centrality/truss.cpp).  Vectors are functions on       *)
(* 0 .. n-1, as in the C code; edge ids and vertex ids start at 0.         *)
(***************************************************************************)
EXTENDS Integers, Sequences, FiniteSets, TLC

(* Bound of the model: graphs have at most MaxEdges edges. *)
MaxEdges == 9

(* The number of edges a graph may store twice. *)
MaxParallel == 2

(* The vertex universe of the enumerated graphs. *)
Vertices == 0 .. 4

(* ------------------------------------------------------------------ *)
(* Vectors                                                            *)
(* ------------------------------------------------------------------ *)

EmptyVec == [i \in {} |-> 0]

VecSize(v) == Cardinality(DOMAIN v)

ZeroVec(n) == [i \in 0 .. n - 1 |-> 0]

SetMax(S) == CHOOSE x \in S : \A y \in S : y <= x

SetMin(S) == CHOOSE x \in S : \A y \in S : x <= y

(* ------------------------------------------------------------------ *)
(* The graph and the library services the computation calls           *)
(* ------------------------------------------------------------------ *)

LexLess(p, q) ==
    \E i \in 1 .. Len(p) : p[i] < q[i] /\ \A k \in 1 .. i - 1 : p[k] = q[k]

RECURSIVE SortTuples(_)
SortTuples(S) ==
    IF S = {} THEN <<>>
    ELSE LET m == CHOOSE p \in S : \A q \in S : q = p \/ LexLess(p, q)
         IN  <<m>> \o SortTuples(S \ {m})

(* A graph on vertices 0 .. n-1 whose edges, in id order, are the pairs of S. *)
MkGraph(n, S) ==
    LET sq == SortTuples(S)
    IN  [nv |-> n, edges |-> [e \in 0 .. Len(sq) - 1 |-> sq[e + 1]]]

igraph_ecount(g) == VecSize(g.edges)

EdgeIds(g) == DOMAIN g.edges

(* igraph_edge: the endpoints of an edge id. *)
igraph_edge(g, e) == g.edges[e]

(* igraph_get_eid, undirected: the id of the first edge between a and b,   *)
(* -1 (with an error) when there is none.                                  *)
igraph_get_eid(g, a, b) ==
    LET m == {e \in EdgeIds(g) : {g.edges[e][1], g.edges[e][2]} = {a, b}}
    IN  IF m = {} THEN -1 ELSE SetMin(m)

Adjacent(g, a, b) == a # b /\ igraph_get_eid(g, a, b) >= 0

(* The triangles of the graph as vertex triples, each once. *)
TriangleSet(g) ==
    {t \in (0 .. g.nv - 1) \X (0 .. g.nv - 1) \X (0 .. g.nv - 1) :
        /\ t[1] < t[2] /\ t[2] < t[3]
        /\ Adjacent(g, t[1], t[2]) /\ Adjacent(g, t[1], t[3]) /\ Adjacent(g, t[2], t[3])}

(* igraph_list_triangles: the triples flattened into one vector.  The order *)
(* of the triples is the library's; rev selects one of two listing orders.  *)
igraph_list_triangles(g, rev) ==
    LET sq == SortTuples(TriangleSet(g))
        n  == 3 * Len(sq)
        fwd == [i \in 0 .. n - 1 |-> sq[(i \div 3) + 1][(i % 3) + 1]]
    IN  IF rev THEN [i \in 0 .. n - 1 |-> fwd[n - 1 - i]] ELSE fwd

(* igraph_get_eids on a vector of vertex pairs: one edge id per pair. *)
igraph_get_eids(g, pairs) ==
    [k \in 0 .. (VecSize(pairs) \div 2) - 1 |->
        igraph_get_eid(g, pairs[2 * k], pairs[2 * k + 1])]

(* Number of edges between v and w. *)
Multiplicity(g, v, w) ==
    Cardinality({e \in EdgeIds(g) : {g.edges[e][1], g.edges[e][2]} = {v, w}})

RECURSIVE NeighborsFrom(_, _, _)
NeighborsFrom(g, v, w) ==
    IF w >= g.nv THEN <<>>
    ELSE (IF w = v THEN <<>> ELSE [i \in 1 .. Multiplicity(g, v, w) |-> w])
         \o NeighborsFrom(g, v, w + 1)

(* igraph_adjlist_init(IGRAPH_ALL, IGRAPH_NO_LOOPS, IGRAPH_MULTIPLE) followed *)
(* by igraph_adjlist_sort: per vertex the ascending list of neighbours, one   *)
(* entry per incident edge, loops left out.                                   *)
igraph_adjlist_init(g) == [v \in 0 .. g.nv - 1 |-> NeighborsFrom(g, v, 0)]

(* igraph_vector_int_intersect_sorted: merge of two ascending lists. *)
RECURSIVE igraph_vector_int_intersect_sorted(_, _)
igraph_vector_int_intersect_sorted(q1, q2) ==
    IF q1 = <<>> \/ q2 = <<>> THEN <<>>
    ELSE IF Head(q1) < Head(q2) THEN igraph_vector_int_intersect_sorted(Tail(q1), q2)
    ELSE IF Head(q1) > Head(q2) THEN igraph_vector_int_intersect_sorted(q1, Tail(q2))
    ELSE <<Head(q1)>> \o igraph_vector_int_intersect_sorted(Tail(q1), Tail(q2))

(* ------------------------------------------------------------------ *)
(* Support Builder                                                    *)
(* ------------------------------------------------------------------ *)

(* A slip in the unpacking: the third pair repeats u instead of v. *)
RECURSIVE UnpackLoopRepeatsFirst(_, _, _, _, _)
UnpackLoopRepeatsFirst(tri, num_triangles, i, j, unpacked_tri) ==
    IF i < num_triangles
    THEN UnpackLoopRepeatsFirst(tri, num_triangles, i + 3, j + 6,
                    [unpacked_tri EXCEPT ![j]     = tri[i],
                                         ![j + 2] = tri[i],
                                         ![j + 1] = tri[i + 1],
                                         ![j + 4] = tri[i],
                                         ![j + 3] = tri[i + 2],
                                         ![j + 5] = tri[i + 2]])
    ELSE unpacked_tri

(* The loop of igraph_truss_i_unpack: for (i = 0, j = 0; i < num_triangles; *)
(* i += 3, j += 6).                                                         *)
RECURSIVE UnpackLoop(_, _, _, _, _)
UnpackLoop(tri, num_triangles, i, j, unpacked_tri) ==
    IF i < num_triangles
    THEN UnpackLoop(tri, num_triangles, i + 3, j + 6,
                    [unpacked_tri EXCEPT ![j]     = tri[i],
                                         ![j + 2] = tri[i],
                                         ![j + 1] = tri[i + 1],
                                         ![j + 4] = tri[i + 1],
                                         ![j + 3] = tri[i + 2],
                                         ![j + 5] = tri[i + 2]])
    ELSE unpacked_tri

(* igraph_truss_i_unpack: [u, v, w] becomes [u, v, u, w, v, w]. *)
igraph_truss_i_unpack(tri, num_triangles) ==
    UnpackLoop(tri, num_triangles, 0, 0, ZeroVec(2 * num_triangles))

(* igraph_truss_i_compute_support: support[eid[i]] += 1 for i = 0 .. m-1. *)
RECURSIVE SupportLoop(_, _, _)
SupportLoop(eids, i, sup) ==
    IF i < VecSize(eids)
    THEN SupportLoop(eids, i + 1, [sup EXCEPT ![eids[i]] = @ + 1])
    ELSE sup

(* A slip: the tally starts at the second entry of eid. *)
ComputeSupportSkipsFirst(eids, sup) == SupportLoop(eids, 1, sup)

igraph_truss_i_compute_support(eids, sup) == SupportLoop(eids, 0, sup)

(* ------------------------------------------------------------------ *)
(* Truss Peeler: the pieces of igraph_i_trussness                     *)
(* ------------------------------------------------------------------ *)

(* igraph_vector_int_resize: the first n entries are kept. *)
igraph_vector_int_resize(v, n) ==
    [i \in 0 .. n - 1 |-> IF i \in DOMAIN v THEN v[i] ELSE 0]

(* igraph_vector_int_max *)
igraph_vector_int_max(v) == SetMax({v[i] : i \in DOMAIN v})

(* vec.resize(max + 1) and the insertion of each edge at its support level. *)
InitialBuckets(sup, mx) ==
    [l \in 0 .. mx |-> {e \in DOMAIN sup : sup[e] = l}]

(* A slip: the level 0 edges are recorded but not marked completed. *)
Level0CompletedNone(sup, buckets) == [e \in DOMAIN sup |-> FALSE]

(* The loop over vec[0]: trussness 2 for the edges of level 0. *)
Level0Trussness(truss, buckets) ==
    [e \in DOMAIN truss |-> IF e \in buckets[0] THEN 2 ELSE truss[e]]

Level0Completed(sup, buckets) ==
    [e \in DOMAIN sup |-> e \in buckets[0]]

(* A slip: ">=" for ">" in the test of the demotion. *)
DemoteEdgeAtLevel(sup, buckets, e, lvl) ==
    IF sup[e] >= lvl
    THEN LET newLevel == sup[e] - 1
         IN  [support |-> [sup EXCEPT ![e] = newLevel],
              vec     |-> [buckets EXCEPT ![newLevel]     = @ \cup {e},
                                          ![newLevel + 1] = @ \ {e}]]
    ELSE [support |-> sup, vec |-> buckets]

(* A slip: the edge is not erased from its old bucket. *)
DemoteEdgeKeepsOld(sup, buckets, e, lvl) ==
    IF sup[e] > lvl
    THEN LET newLevel == sup[e] - 1
         IN  [support |-> [sup EXCEPT ![e] = newLevel],
              vec     |-> [buckets EXCEPT ![newLevel] = @ \cup {e}]]
    ELSE [support |-> sup, vec |-> buckets]

(* A slip: the demotion is left out. *)
DemoteEdgeNever(sup, buckets, e, lvl) == [support |-> sup, vec |-> buckets]

(* The demotion of one edge, "if (support[e] > level) { ... }": the pair   *)
(* of the support vector and the buckets afterwards.                       *)
DemoteEdge(sup, buckets, e, lvl) ==
    IF sup[e] > lvl
    THEN LET newLevel == sup[e] - 1
         IN  [support |-> [sup EXCEPT ![e] = newLevel],
              vec     |-> [buckets EXCEPT ![newLevel]     = @ \cup {e},
                                          ![newLevel + 1] = @ \ {e}]]
    ELSE [support |-> sup, vec |-> buckets]

(* A slip: only e1 is tested for completion. *)
BothPendingFirstOnly(done, e1, e2) == ~done[e1]

(* A slip: the completion test is left out. *)
BothPendingAlways(done, e1, e2) == TRUE

(* The guard of the demotion of a triangle's two other edges. *)
BothPending(done, e1, e2) == ~done[e1] /\ ~done[e2]

(* A slip: the two edges are decremented whatever their state and level. *)
DemoteTriangleUnguarded(g, sup, buckets, done, lvl, from, to, n) ==
    LET e1 == igraph_get_eid(g, from, n)
        e2 == igraph_get_eid(g, to, n)
        d1 == DemoteEdge(sup, buckets, e1, 0)
    IN  DemoteEdge(d1.support, d1.vec, e2, 0)

(* The body of the loop over the common neighbours for one neighbour n. *)
DemoteTriangle(g, sup, buckets, done, lvl, from, to, n) ==
    LET e1 == igraph_get_eid(g, from, n)
        e2 == igraph_get_eid(g, to, n)
        d1 == DemoteEdge(sup, buckets, e1, lvl)
        d2 == DemoteEdge(d1.support, d1.vec, e2, lvl)
    IN  IF BothPending(done, e1, e2) THEN d2
        ELSE [support |-> sup, vec |-> buckets]

(* "q1 the smaller set", then the intersection. *)
CommonNeighbors(adj, from, to) ==
    LET fromNeighbors == adj[from]
        toNeighbors   == adj[to]
    IN  IF Len(fromNeighbors) > Len(toNeighbors)
        THEN igraph_vector_int_intersect_sorted(toNeighbors, fromNeighbors)
        ELSE igraph_vector_int_intersect_sorted(fromNeighbors, toNeighbors)

(* A slip: off by one in the recorded value. *)
SeedTrussnessPlusThree(lvl) == lvl + 3

(* The trussness recorded for a seed popped at a level. *)
SeedTrussness(lvl) == lvl + 2

(* ------------------------------------------------------------------ *)
(* State                                                              *)
(* ------------------------------------------------------------------ *)

VARIABLES
    graph,               \* the input graph of the current call
    fault,               \* which fallible call fails in this run, "none" if none
    call,                \* "first", or the kind of the second call of the driver
    prev,                \* the first call's result, per edge of the current graph
    pc,                  \* position in igraph_trussness / igraph_i_trussness
    ret,                 \* error code returned to the caller, "none" while running
    triangles, unpacked_triangles, eid, support,
    support0,            \* the support as the Support Builder delivered it
    trussness,           \* the caller's output vector
    completed, vec, max, level,
    adjlist, commonNeighbors, seed, fromVertex, toVertex, j,
    unresolved,          \* an edge lookup failed and the run went on
    finally_stack,       \* the arrays registered with IGRAPH_FINALLY, top last
    inited,              \* the arrays this call has initialised
    destroyed,           \* per array, the number of times it was destroyed
    cleanOk              \* each IGRAPH_FINALLY_CLEAN took off what was destroyed

vars == <<graph, fault, call, prev, pc, ret, triangles, unpacked_triangles, eid,
          support, support0, trussness, completed, vec, max, level, adjlist,
          commonNeighbors, seed, fromVertex, toVertex, j, unresolved,
          finally_stack, inited, destroyed, cleanOk>>

builderVars == <<triangles, unpacked_triangles, eid, support, support0>>
peelerVars  == <<completed, vec, max, level, adjlist, commonNeighbors, seed,
                 fromVertex, toVertex, j>>
driverVars  == <<graph, fault, call, prev>>
cleanupVars == <<finally_stack, inited, destroyed, cleanOk>>

(* The fallible call that fails in a run: an allocation (lines 83-86, 89,  *)
(* 93, 162, 171, 175-179, 191-194, 242, 249) or an edge lookup (99, 231), *)
(* or none.                                                                *)
Faults == {"none", "init", "list_triangles", "unpack", "get_eids", "resize",
           "completed", "buckets", "adjlist", "get_eid", "insert"}

PairSet == {p \in Vertices \X Vertices : p[1] < p[2]}

K4Edges == {<<0, 1>>, <<0, 2>>, <<0, 3>>, <<1, 2>>, <<1, 3>>, <<2, 3>>}

(* The graphs of the worked cases: one triangle, K4, K4 and the edge (4,5). *)
TriangleGraph == MkGraph(3, {<<0, 1>>, <<0, 2>>, <<1, 2>>})
K4Graph       == MkGraph(4, K4Edges)
K4PlusEdge    == MkGraph(6, K4Edges \cup {<<4, 5>>})

(* Every simple graph on Vertices with at most MaxEdges edges, and the *)
(* worked cases.                                                       *)
Graphs ==
    {MkGraph(Cardinality(Vertices), S) :
        S \in {T \in SUBSET PairSet : Cardinality(T) <= MaxEdges}}
    \cup {TriangleGraph, K4Graph, K4PlusEdge}

(* The intermediate arrays of a call, in the order of their initialisation. *)
BuilderArrays == <<"support", "eid", "unpacked_triangles", "triangles">>
PeelerArrays  == <<"adjlist", "commonNeighbors">>
Arrays == {BuilderArrays[i] : i \in DOMAIN BuilderArrays}
              \cup {PeelerArrays[i] : i \in DOMAIN PeelerArrays}

NoneDestroyed == [a \in Arrays |-> 0]

(* IGRAPH_FINALLY: the arrays named are put on the cleanup stack in turn. *)
IGRAPH_FINALLY(stk, names) == stk \o names

(* IGRAPH_FINALLY_CLEAN(n): the n entries on top are taken off. *)
IGRAPH_FINALLY_CLEAN(stk, n) == SubSeq(stk, 1, Len(stk) - n)

(* The destroy calls that go before an IGRAPH_FINALLY_CLEAN. *)
DestroyNamed(d, names) ==
    [a \in Arrays |-> d[a] + Cardinality({i \in DOMAIN names : names[i] = a})]

(* IGRAPH_FINALLY_FREE, run by the error handler: every entry of the *)
(* cleanup stack is destroyed.                                       *)
IGRAPH_FINALLY_FREE(d, stk) == DestroyNamed(d, stk)

(* The entries on top of the stack are the arrays named. *)
OnTop(stk, names) ==
    /\ Len(stk) >= Len(names)
    /\ SubSeq(stk, Len(stk) - Len(names) + 1, Len(stk)) = names

(* K4 and a fifth vertex joined to the ends of its edge (0,1). *)
FanEdges == K4Edges \cup {<<0, 4>>, <<1, 4>>}

(* A graph on vertices 0 .. n-1 that stores the pairs of S, then the pairs *)
(* of D a second time, then the self-loops of L.                           *)
MkMultiGraph(n, S, D, L) ==
    LET sq == SortTuples(S) \o SortTuples(D) \o L
    IN  [nv |-> n, edges |-> [e \in 0 .. Len(sq) - 1 |-> sq[e + 1]]]

(* The graphs over the pairs of FanEdges that store at most MaxParallel  *)
(* edges twice, with or without a self-loop at vertex 0.                *)
MultiGraphs ==
    UNION {{MkMultiGraph(Cardinality(Vertices), S, D, L) :
                D \in {T \in SUBSET S : Cardinality(T) <= MaxParallel},
                L \in {<<>>, <<<<0, 0>>>>}} :
           S \in SUBSET FanEdges}

(* The peeler's locals before igraph_i_trussness has set them. *)
PeelerReset ==
    /\ completed = EmptyVec /\ vec = EmptyVec /\ max = 0 /\ level = 0
    /\ adjlist = EmptyVec /\ commonNeighbors = <<>> /\ seed = -1
    /\ fromVertex = -1 /\ toVertex = -1 /\ j = 0

PeelerReset1 ==
    /\ completed' = EmptyVec /\ vec' = EmptyVec /\ max' = 0 /\ level' = 0
    /\ adjlist' = EmptyVec /\ commonNeighbors' = <<>> /\ seed' = -1
    /\ fromVertex' = -1 /\ toVertex' = -1 /\ j' = 0

BuilderReset1 ==
    /\ triangles' = EmptyVec /\ unpacked_triangles' = EmptyVec
    /\ eid' = EmptyVec /\ support' = EmptyVec

(* The caller of the unit test: a vector of igraph_ecount(graph) zeros. *)
CallerVector(g) == ZeroVec(igraph_ecount(g))

InitOn(graphs) ==
    /\ graph \in graphs
    /\ fault \in Faults
    /\ call = "first"
    /\ prev = EmptyVec
    /\ pc = "igraph_trussness"
    /\ ret = "none"
    /\ triangles = EmptyVec /\ unpacked_triangles = EmptyVec
    /\ eid = EmptyVec /\ support = EmptyVec /\ support0 = EmptyVec
    /\ trussness = CallerVector(graph)
    /\ PeelerReset
    /\ unresolved = FALSE
    /\ finally_stack = <<>>
    /\ inited = {}
    /\ destroyed = NoneDestroyed
    /\ cleanOk = TRUE

(* The calls on the simple graphs. *)
Init == InitOn(Graphs)

(* The calls on graphs that store parallel edges and self-loops. *)
InitMulti == InitOn(MultiGraphs)

(* An IGRAPH_CHECK that fails with the arrays of names initialised and  *)
(* registered before the failing call: the error handler unwinds the    *)
(* cleanup stack and the error code goes to the caller.                 *)
ReturnErrorAfter(code, names) ==
    /\ pc' = "done"
    /\ ret' = code
    /\ BuilderReset1
    /\ PeelerReset1
    /\ inited' = inited \cup {names[i] : i \in DOMAIN names}
    /\ destroyed' = IGRAPH_FINALLY_FREE(destroyed, IGRAPH_FINALLY(finally_stack, names))
    /\ finally_stack' = <<>>
    /\ UNCHANGED <<driverVars, support0, unresolved, cleanOk>>

ReturnError(code) == ReturnErrorAfter(code, <<>>)

(* "igraph_..._destroy(&a); IGRAPH_FINALLY_CLEAN(1);" for the arrays named, *)
(* once for each in the order given.                                       *)
DestroyAndClean(names) ==
    /\ destroyed' = DestroyNamed(destroyed, names)
    /\ cleanOk' = (cleanOk /\ \A k \in DOMAIN names :
                       OnTop(IGRAPH_FINALLY_CLEAN(finally_stack, k - 1), <<names[k]>>))
    /\ finally_stack' = IGRAPH_FINALLY_CLEAN(finally_stack, Len(names))
    /\ UNCHANGED inited

(* ------------------------------------------------------------------ *)
(* igraph_trussness: the Support Builder steps                        *)
(* ------------------------------------------------------------------ *)

(* IGRAPH_VECTOR_INT_INIT_FINALLY(&support, igraph_ecount(graph)) and the *)
(* three empty vectors.                                                   *)
InitVectors ==
    /\ pc = "igraph_trussness"
    /\ fault # "init"
    /\ support' = ZeroVec(igraph_ecount(graph))
    /\ eid' = EmptyVec /\ unpacked_triangles' = EmptyVec /\ triangles' = EmptyVec
    /\ pc' = "list_triangles"
    /\ inited' = inited \cup {BuilderArrays[i] : i \in DOMAIN BuilderArrays}
    /\ finally_stack' = IGRAPH_FINALLY(finally_stack, BuilderArrays)
    /\ UNCHANGED <<driverVars, ret, support0, trussness, peelerVars, unresolved,
                   destroyed, cleanOk>>

(* One of the four initialisations fails, the ones before it being done. *)
FailInitVectors ==
    /\ pc = "igraph_trussness"
    /\ fault = "init"
    /\ \E k \in 0 .. Len(BuilderArrays) - 1 :
           ReturnErrorAfter("IGRAPH_ENOMEM", SubSeq(BuilderArrays, 1, k))
    /\ UNCHANGED trussness

(* IGRAPH_CHECK(igraph_list_triangles(graph, &triangles)) *)
ListTriangles ==
    /\ pc = "list_triangles"
    /\ fault # "list_triangles"
    /\ \E rev \in BOOLEAN : triangles' = igraph_list_triangles(graph, rev)
    /\ pc' = "unpack"
    /\ UNCHANGED <<driverVars, ret, unpacked_triangles, eid, support, support0,
                   trussness, peelerVars, unresolved, cleanupVars>>

FailListTriangles ==
    /\ pc = "list_triangles"
    /\ fault = "list_triangles"
    /\ ReturnError("IGRAPH_ENOMEM")
    /\ UNCHANGED trussness

(* IGRAPH_CHECK(igraph_truss_i_unpack(...)), then the triangle list is freed. *)
Unpack ==
    /\ pc = "unpack"
    /\ fault # "unpack"
    /\ unpacked_triangles' = igraph_truss_i_unpack(triangles, VecSize(triangles))
    /\ triangles' = EmptyVec
    /\ DestroyAndClean(<<"triangles">>)
    /\ pc' = "get_eids"
    /\ UNCHANGED <<driverVars, ret, eid, support, support0, trussness, peelerVars,
                   unresolved>>

FailUnpack ==
    /\ pc = "unpack"
    /\ fault = "unpack"
    /\ ReturnError("IGRAPH_ENOMEM")
    /\ UNCHANGED trussness

(* Whether igraph_get_eids(..., error = 1) fails on the unpacked pairs. *)
GetEidsFails ==
    \/ fault = "get_eids"
    \/ \E k \in DOMAIN igraph_get_eids(graph, unpacked_triangles) :
           igraph_get_eids(graph, unpacked_triangles)[k] < 0

(* IGRAPH_CHECK(igraph_get_eids(graph, &eid, &unpacked_triangles, 0, 0, 1)) *)
GetEids ==
    /\ pc = "get_eids"
    /\ ~GetEidsFails
    /\ eid' = igraph_get_eids(graph, unpacked_triangles)
    /\ unpacked_triangles' = EmptyVec
    /\ DestroyAndClean(<<"unpacked_triangles">>)
    /\ pc' = "compute_support"
    /\ UNCHANGED <<driverVars, ret, triangles, support, support0, trussness,
                   peelerVars, unresolved>>

FailGetEids ==
    /\ pc = "get_eids"
    /\ GetEidsFails
    /\ ReturnError("IGRAPH_EINVAL")
    /\ UNCHANGED trussness

(* igraph_truss_i_compute_support(&eid, &support), then eid is freed. *)
ComputeSupport ==
    /\ pc = "compute_support"
    /\ support' = igraph_truss_i_compute_support(eid, support)
    /\ support0' = support'
    /\ eid' = EmptyVec
    /\ DestroyAndClean(<<"eid">>)
    /\ pc' = "igraph_i_trussness"
    /\ UNCHANGED <<driverVars, ret, triangles, unpacked_triangles, trussness,
                   peelerVars, unresolved>>

(* ------------------------------------------------------------------ *)
(* igraph_i_trussness                                                 *)
(* ------------------------------------------------------------------ *)

nedges == VecSize(support)

(* IGRAPH_CHECK(igraph_vector_int_resize(trussness, nedges)) fails. *)
FailResize ==
    /\ pc = "igraph_i_trussness"
    /\ fault = "resize"
    /\ ReturnError("IGRAPH_ENOMEM")
    /\ UNCHANGED trussness

(* A slip: the test "nedges == 0" is left out and the set-up of the peeler *)
(* runs on the empty support vector.                                      *)
ReturnEmptyFallsThrough ==
    /\ pc = "igraph_i_trussness"
    /\ fault # "resize"
    /\ nedges = 0
    /\ trussness' = igraph_vector_int_resize(trussness, nedges)
    /\ max' = 0
    /\ vec' = [l \in 0 .. 0 |-> {}]
    /\ completed' = EmptyVec
    /\ adjlist' = igraph_adjlist_init(graph)
    /\ commonNeighbors' = <<>>
    /\ level' = 1
    /\ pc' = "for_level"
    /\ inited' = inited \cup {PeelerArrays[i] : i \in DOMAIN PeelerArrays}
    /\ finally_stack' = IGRAPH_FINALLY(finally_stack, PeelerArrays)
    /\ UNCHANGED <<driverVars, ret, builderVars, seed, fromVertex, toVertex, j,
                   unresolved, destroyed, cleanOk>>

(* "if (nedges == 0) return IGRAPH_SUCCESS;" and the return of the caller. *)
ReturnEmpty ==
    /\ pc = "igraph_i_trussness"
    /\ fault # "resize"
    /\ nedges = 0
    /\ trussness' = igraph_vector_int_resize(trussness, nedges)
    /\ pc' = "done"
    /\ ret' = "IGRAPH_SUCCESS"
    /\ BuilderReset1
    /\ PeelerReset1
    /\ DestroyAndClean(<<"support">>)
    /\ UNCHANGED <<driverVars, support0, unresolved>>

(* completed.resize(nedges), vec.resize(max + 1) or an insertion throws. *)
FailBuckets ==
    /\ pc = "igraph_i_trussness"
    /\ fault \in {"completed", "buckets"}
    /\ nedges # 0
    /\ trussness' = igraph_vector_int_resize(trussness, nedges)
    /\ ReturnError("IGRAPH_ENOMEM")

(* igraph_adjlist_init fails, or the init of commonNeighbors with the  *)
(* adjacency list registered, after the level 0 edges were recorded.  *)
FailAdjlist ==
    /\ pc = "igraph_i_trussness"
    /\ fault = "adjlist"
    /\ nedges # 0
    /\ trussness' = Level0Trussness(igraph_vector_int_resize(trussness, nedges),
                        InitialBuckets(support, igraph_vector_int_max(support)))
    /\ \E k \in 0 .. Len(PeelerArrays) - 1 :
           ReturnErrorAfter("IGRAPH_ENOMEM", SubSeq(PeelerArrays, 1, k))

(* Lines 161-197: everything before the loop over the levels. *)
InitPeel ==
    /\ pc = "igraph_i_trussness"
    /\ fault \notin {"resize", "completed", "buckets", "adjlist"}
    /\ nedges # 0
    /\ max' = igraph_vector_int_max(support)
    /\ vec' = InitialBuckets(support, max')
    /\ trussness' = Level0Trussness(igraph_vector_int_resize(trussness, nedges), vec')
    /\ completed' = Level0Completed(support, vec')
    /\ adjlist' = igraph_adjlist_init(graph)
    /\ commonNeighbors' = <<>>
    /\ level' = 1
    /\ pc' = "for_level"
    /\ inited' = inited \cup {PeelerArrays[i] : i \in DOMAIN PeelerArrays}
    /\ finally_stack' = IGRAPH_FINALLY(finally_stack, PeelerArrays)
    /\ UNCHANGED <<driverVars, ret, builderVars, seed, fromVertex, toVertex, j,
                   unresolved, destroyed, cleanOk>>

(* A slip: the level advances whether or not its bucket is empty. *)
NextLevelLeavesEdges ==
    /\ pc = "for_level"
    /\ level <= max
    /\ level' = level + 1
    /\ UNCHANGED <<driverVars, pc, ret, builderVars, trussness, completed, vec, max,
                   adjlist, commonNeighbors, seed, fromVertex, toVertex, j, unresolved,
                   cleanupVars>>

(* "for (level = 1; level <= max; ++level)" when vec[level] is empty. *)
NextLevel ==
    /\ pc = "for_level"
    /\ level <= max
    /\ vec[level] = {}
    /\ level' = level + 1
    /\ UNCHANGED <<driverVars, pc, ret, builderVars, trussness, completed, vec, max,
                   adjlist, commonNeighbors, seed, fromVertex, toVertex, j, unresolved,
                   cleanupVars>>

(* A slip: the seed is read from vec[level] and not erased. *)
PopSeedKeepsSeed ==
    /\ pc = "for_level"
    /\ level <= max
    /\ \E s \in vec[level] :
        /\ seed' = s
        /\ fromVertex' = igraph_edge(graph, s)[1]
        /\ toVertex' = igraph_edge(graph, s)[2]
        /\ commonNeighbors' = CommonNeighbors(adjlist, fromVertex', toVertex')
    /\ j' = 0
    /\ pc' = "for_j"
    /\ UNCHANGED <<driverVars, ret, builderVars, trussness, completed, vec, max,
                   level, adjlist, unresolved, cleanupVars>>

(* Lines 204-228: an edge leaves vec[level]; which one is begin() of an *)
(* unordered_set, so any.  The common neighbours of its endpoints.      *)
PopSeed ==
    /\ pc = "for_level"
    /\ level <= max
    /\ \E s \in vec[level] :
        /\ seed' = s
        /\ vec' = [vec EXCEPT ![level] = @ \ {s}]
        /\ fromVertex' = igraph_edge(graph, s)[1]
        /\ toVertex' = igraph_edge(graph, s)[2]
        /\ commonNeighbors' = CommonNeighbors(adjlist, fromVertex', toVertex')
    /\ j' = 0
    /\ pc' = "for_j"
    /\ UNCHANGED <<driverVars, ret, builderVars, trussness, completed, max, level,
                   adjlist, unresolved, cleanupVars>>

(* The first edge lookup of the run is the one that fails under "get_eid". *)
LookupFailsNow == fault = "get_eid" /\ ~unresolved

(* An insertion into a bucket (line 242 or 249) throws std::bad_alloc: the *)
(* first insertion of the run under "insert".                             *)
InsertThrowsNow ==
    /\ fault = "insert"
    /\ pc = "for_j"
    /\ j < Len(commonNeighbors)
    /\ DemoteTriangle(graph, support, vec, completed, level, fromVertex, toVertex,
                      commonNeighbors[j + 1]).support # support

(* Lines 230-252 for the common neighbour at index j. *)
Demote ==
    /\ pc = "for_j"
    /\ j < Len(commonNeighbors)
    /\ ~LookupFailsNow
    /\ ~InsertThrowsNow
    /\ LET d == DemoteTriangle(graph, support, vec, completed, level,
                               fromVertex, toVertex, commonNeighbors[j + 1])
       IN  support' = d.support /\ vec' = d.vec
    /\ j' = j + 1
    /\ UNCHANGED <<driverVars, pc, ret, triangles, unpacked_triangles, eid, support0,
                   trussness, completed, max, level, adjlist, commonNeighbors, seed,
                   fromVertex, toVertex, unresolved, cleanupVars>>

(* The exception of the insertion is caught nowhere (lines 200-259 are not *)
(* inside IGRAPH_HANDLE_EXCEPTIONS): it leaves igraph_i_trussness and      *)
(* igraph_trussness after the decrement of line 240 or 247, with no        *)
(* destroy call and the cleanup stack as it was.                           *)
DemoteThrows ==
    /\ InsertThrowsNow
    /\ LET n  == commonNeighbors[j + 1]
           e1 == igraph_get_eid(graph, fromVertex, n)
           e2 == igraph_get_eid(graph, toVertex, n)
           e  == IF support[e1] > level THEN e1 ELSE e2
       IN  support' = [support EXCEPT ![e] = @ - 1]
    /\ pc' = "thrown"
    /\ UNCHANGED <<driverVars, ret, triangles, unpacked_triangles, eid, support0,
                   trussness, completed, vec, max, level, adjlist, commonNeighbors,
                   seed, fromVertex, toVertex, j, unresolved, cleanupVars>>

(* igraph_get_eid(graph, &e1, fromVertex, n, IGRAPH_UNDIRECTED, 1) reports  *)
(* an error.  Its return value is not looked at: the loop body goes on with *)
(* e1 = -1 and indexes completed and support with it.  What it reads there  *)
(* is any value; a write there is taken as the end of the process.  The     *)
(* error handler has unwound the cleanup stack when the lookup comes back.  *)
DemoteUnresolved ==
    /\ pc = "for_j"
    /\ j < Len(commonNeighbors)
    /\ LookupFailsNow
    /\ unresolved' = TRUE
    /\ destroyed' = IGRAPH_FINALLY_FREE(destroyed, finally_stack)
    /\ finally_stack' = <<>>
    /\ UNCHANGED <<inited, cleanOk>>
    /\ \/ /\ pc' = "crashed"
          /\ UNCHANGED <<support, vec, j>>
       \/ /\ pc' = pc
          /\ j' = j + 1
          /\ \E e1_complete \in BOOLEAN :
               LET e2 == igraph_get_eid(graph, toVertex, commonNeighbors[j + 1])
                   d  == DemoteEdge(support, vec, e2, level)
               IN  IF ~e1_complete /\ ~completed[e2]
                   THEN support' = d.support /\ vec' = d.vec
                   ELSE UNCHANGED <<support, vec>>
    /\ UNCHANGED <<driverVars, ret, triangles, unpacked_triangles, eid, support0,
                   trussness, completed, max, level, adjlist, commonNeighbors, seed,
                   fromVertex, toVertex>>

(* A slip: the seed is recorded but not marked completed. *)
RecordLeavesPending ==
    /\ pc = "for_j"
    /\ j >= Len(commonNeighbors)
    /\ trussness' = [trussness EXCEPT ![seed] = SeedTrussness(level)]
    /\ commonNeighbors' = <<>>
    /\ pc' = "for_level"
    /\ UNCHANGED <<driverVars, ret, builderVars, completed, vec, max, level, adjlist,
                   seed, fromVertex, toVertex, j, unresolved, cleanupVars>>

(* Lines 254-257: the seed's level is its trussness. *)
Record ==
    /\ pc = "for_j"
    /\ j >= Len(commonNeighbors)
    /\ trussness' = [trussness EXCEPT ![seed] = SeedTrussness(level)]
    /\ completed' = [completed EXCEPT ![seed] = TRUE]
    /\ commonNeighbors' = <<>>
    /\ pc' = "for_level"
    /\ UNCHANGED <<driverVars, ret, builderVars, vec, max, level, adjlist, seed,
                   fromVertex, toVertex, j, unresolved, cleanupVars>>

(* The loop is over: lines 261-266, then lines 110-113 of the caller. *)
Return ==
    /\ pc = "for_level"
    /\ level > max
    /\ pc' = "done"
    /\ ret' = "IGRAPH_SUCCESS"
    /\ BuilderReset1
    /\ PeelerReset1
    /\ destroyed' = DestroyNamed(destroyed, <<"commonNeighbors", "adjlist", "support">>)
    /\ cleanOk' = (/\ cleanOk
                   /\ OnTop(finally_stack, PeelerArrays)
                   /\ OnTop(IGRAPH_FINALLY_CLEAN(finally_stack, 2), <<"support">>))
    /\ finally_stack' = IGRAPH_FINALLY_CLEAN(finally_stack, 3)
    /\ UNCHANGED <<driverVars, support0, trussness, unresolved, inited>>

(* ------------------------------------------------------------------ *)
(* The caller: a second call after a successful first one             *)
(* ------------------------------------------------------------------ *)

FirstCallDone ==
    pc = "done" /\ ret = "IGRAPH_SUCCESS" /\ call = "first" /\ fault = "none"

(* The same graph once more, with a fresh output vector. *)
CallAgain ==
    /\ FirstCallDone
    /\ call' = "again"
    /\ prev' = trussness
    /\ trussness' = CallerVector(graph)
    /\ pc' = "igraph_trussness"
    /\ ret' = "none"
    /\ support0' = EmptyVec
    /\ inited' = {}
    /\ destroyed' = NoneDestroyed
    /\ UNCHANGED <<graph, fault, triangles, unpacked_triangles, eid, support,
                   peelerVars, unresolved, finally_stack, cleanOk>>

(* The ids of the edges below the highest trussness, ascending. *)
KeptIds(g, truss) ==
    LET top == SetMax({truss[e] : e \in DOMAIN truss})
        ids == SortTuples({<<e>> : e \in {f \in DOMAIN truss : truss[f] < top}})
    IN  [k \in 0 .. Len(ids) - 1 |-> ids[k + 1][1]]

(* The graph without its edges of highest trussness; the other edges keep *)
(* their order.                                                           *)
RemoveTopEdges(g, truss) ==
    LET ids == KeptIds(g, truss)
    IN  [nv |-> g.nv, edges |-> [k \in DOMAIN ids |-> g.edges[ids[k]]]]

CallReduced ==
    /\ FirstCallDone
    /\ igraph_ecount(graph) > 0
    /\ call' = "reduced"
    /\ graph' = RemoveTopEdges(graph, trussness)
    /\ prev' = [k \in DOMAIN KeptIds(graph, trussness) |->
                    trussness[KeptIds(graph, trussness)[k]]]
    /\ trussness' = CallerVector(graph')
    /\ pc' = "igraph_trussness"
    /\ ret' = "none"
    /\ support0' = EmptyVec
    /\ inited' = {}
    /\ destroyed' = NoneDestroyed
    /\ UNCHANGED <<fault, triangles, unpacked_triangles, eid, support, peelerVars,
                   unresolved, finally_stack, cleanOk>>

Next ==
    \/ InitVectors \/ FailInitVectors
    \/ ListTriangles \/ FailListTriangles
    \/ Unpack \/ FailUnpack
    \/ GetEids \/ FailGetEids
    \/ ComputeSupport
    \/ FailResize \/ ReturnEmpty \/ FailBuckets \/ FailAdjlist \/ InitPeel
    \/ NextLevel \/ PopSeed \/ Demote \/ DemoteThrows \/ DemoteUnresolved
    \/ Record \/ Return
    \/ CallAgain \/ CallReduced

Spec == Init /\ [][Next]_vars

SpecMulti == InitMulti /\ [][Next]_vars

(* ------------------------------------------------------------------ *)
(* What a k-truss is                                                  *)
(* ------------------------------------------------------------------ *)

(* A call has returned success, no edge lookup having failed on the way. *)
Returned == pc = "done" /\ ret = "IGRAPH_SUCCESS" /\ ~unresolved

(* The peeling loop is running. *)
InLoop == pc \in {"for_level", "for_j"}

(* The number of triangles through edge e made of e and two edges of S. *)
TrianglesIn(g, S, e) ==
    LET a == g.edges[e][1]
        b == g.edges[e][2]
    IN  Cardinality({w \in 0 .. g.nv - 1 :
            /\ w # a /\ w # b
            /\ \E f \in S : {g.edges[f][1], g.edges[f][2]} = {a, w}
            /\ \E h \in S : {g.edges[h][1], g.edges[h][2]} = {b, w}})

(* The largest k for which the non-empty edge set S is a k-truss, that is, *)
(* for which each edge of S lies in at least k-2 triangles of S: 2 plus    *)
(* the least number of triangles of S through an edge of S.                *)
TrussLevel(g, S) == 2 + SetMin({TrianglesIn(g, S, e) : e \in S})

(* Per edge, the largest k such that the edge belongs to a k-truss. *)
MaxTruss(g) ==
    LET lvl == [S \in SUBSET EdgeIds(g) |-> IF S = {} THEN 0 ELSE TrussLevel(g, S)]
    IN  [e \in EdgeIds(g) |->
            SetMax({lvl[S] : S \in {T \in SUBSET EdgeIds(g) : e \in T}})]

(* ------------------------------------------------------------------ *)
(* The claims                                                         *)
(* ------------------------------------------------------------------ *)

(* C1: for every simple graph, the value returned for each edge e is the  *)
(* largest k such that e belongs to a k-truss, a set of edges in which    *)
(* every edge lies in at least k-2 triangles made of edges of the set.    *)
C1_TrussnessIsMaxTruss ==
    Returned => trussness = MaxTruss(graph)

(* A first call has returned where one edge ended below its initial       *)
(* support plus 2 (it was demoted) and still above 3, beside an edge of   *)
(* value 3.                                                               *)
C1_Witness ==
    /\ Returned
    /\ call = "first"
    /\ \E e \in DOMAIN trussness :
          trussness[e] >= 4 /\ trussness[e] < support0[e] + 2
    /\ \E e \in DOMAIN trussness : trussness[e] = 3

(* C3: after the Support Builder, support has one entry per edge, and the *)
(* entry of e is the number of triangles of the graph that contain e.     *)
C3_SupportCountsTriangles ==
    pc = "igraph_i_trussness" =>
        /\ DOMAIN support = EdgeIds(graph)
        /\ \A e \in EdgeIds(graph) :
              support[e] = Cardinality({t \in TriangleSet(graph) :
                  {graph.edges[e][1], graph.edges[e][2]} \subseteq {t[1], t[2], t[3]}})

(* The builder has run on a graph with an edge in two triangles, an edge  *)
(* in one and an edge in none.                                            *)
C3_Witness ==
    /\ pc = "igraph_i_trussness"
    /\ \E e \in DOMAIN support : support[e] = 2
    /\ \E e \in DOMAIN support : support[e] = 1
    /\ \E e \in DOMAIN support : support[e] = 0

(* C4: for every edge e with returned value k, e lies in at least k-2     *)
(* triangles of the graph restricted to the edges with value >= k.        *)
C4_EdgesAtLeastKFormKTruss ==
    Returned =>
        \A e \in EdgeIds(graph) :
            TrianglesIn(graph, {f \in EdgeIds(graph) : trussness[f] >= trussness[e]}, e)
                >= trussness[e] - 2

(* A run has returned where some edge has value 4 and another a lower     *)
(* value above 2: the restriction to value >= 4 drops triangles.          *)
C4_Witness ==
    /\ Returned
    /\ \E e \in DOMAIN trussness : trussness[e] = 4
    /\ \E e \in DOMAIN trussness : trussness[e] = 3

(* C5: every returned value is at least 2 and at most 2 plus the largest  *)
(* initial support.                                                       *)
C5_TrussnessBounds ==
    Returned =>
        \A e \in EdgeIds(graph) :
            /\ trussness[e] >= 2
            /\ trussness[e] <= 2 + igraph_vector_int_max(support0)

(* A run has returned where the upper bound is not attained by any edge   *)
(* and another where it is met: here, values strictly below the bound.    *)
C5_Witness ==
    /\ Returned
    /\ igraph_ecount(graph) > 0
    /\ \A e \in DOMAIN trussness : trussness[e] < 2 + igraph_vector_int_max(support0)
    /\ \E e \in DOMAIN trussness : trussness[e] > 2

(* C6: an edge of initial support 0 is completed with value 2 as soon as  *)
(* the loop over the levels starts, and returns with value 2.             *)
C6_Level0EdgesGetTwo ==
    \A e \in DOMAIN support0 :
        support0[e] = 0 =>
            /\ InLoop => completed[e] /\ trussness[e] = 2
            /\ Returned => trussness[e] = 2

(* The loop is at level 1 or above on a graph with a triangle-free edge   *)
(* and an edge still pending.                                             *)
C6_Witness ==
    /\ InLoop
    /\ level >= 1
    /\ \E e \in DOMAIN support0 : support0[e] = 0
    /\ \E e \in DOMAIN completed : ~completed[e]

(* C7: a single triangle returns 3 for its three edges; K4 returns 4 for  *)
(* its six edges; K4 with the extra edge (4,5) returns 4 for the six K4   *)
(* edges and 2 for (4,5).                                                 *)
C7_WorkedCases ==
    Returned =>
        /\ graph = TriangleGraph => \A e \in EdgeIds(graph) : trussness[e] = 3
        /\ graph = K4Graph => \A e \in EdgeIds(graph) : trussness[e] = 4
        /\ graph = K4PlusEdge =>
              \A e \in EdgeIds(graph) :
                  trussness[e] = IF graph.edges[e] = <<4, 5>> THEN 2 ELSE 4

(* The call on K4 with the extra edge has returned. *)
C7_Witness ==
    Returned /\ graph = K4PlusEdge /\ call = "first"

(* C2: a second call on the same graph returns the array of the first    *)
(* call, whichever edges the two runs took from the buckets.              *)
C2_PopOrderIndependent ==
    (Returned /\ call = "again") => trussness = prev

(* The second call on the same graph has returned, on a graph where an    *)
(* edge was demoted and ended above 3.                                    *)
C2_Witness ==
    /\ Returned
    /\ call = "again"
    /\ \E e \in DOMAIN trussness :
          trussness[e] >= 4 /\ trussness[e] < support0[e] + 2

(* C8: after the edges of highest value are removed and the rest is       *)
(* computed again, no remaining edge has a larger value than before.      *)
C8_RemovalNeverIncreases ==
    (Returned /\ call = "reduced") =>
        \A e \in DOMAIN trussness : trussness[e] <= prev[e]

(* The call on the reduced graph has returned, with an edge that lost a   *)
(* triangle to the removal and whose value went down.                     *)
C8_Witness ==
    /\ Returned
    /\ call = "reduced"
    /\ \E e \in DOMAIN trussness : prev[e] = 3 /\ trussness[e] = 2

(* C9: once an edge lookup has failed, the computation is over and the    *)
(* caller holds an error code: in the Support Builder (igraph_get_eids)   *)
(* and in the peeler (igraph_get_eid).                                    *)
C9_LookupFailureReturnsError ==
    /\ (fault = "get_eids" /\ pc \notin {"igraph_trussness", "list_triangles",
                                         "unpack", "get_eids"})
          => (pc = "done" /\ ret = "IGRAPH_EINVAL")
    /\ unresolved => (pc = "done" /\ ret \notin {"none", "IGRAPH_SUCCESS"})

(* C10: when a call has failed, the caller's vector is as the caller made *)
(* it.                                                                    *)
C10_NoPartialResultOnFailure ==
    (pc = "done" /\ ret # "IGRAPH_SUCCESS" /\ call = "first")
        => trussness = CallerVector(graph)

(* C11: on a graph without edges the call succeeds with an empty vector   *)
(* and never sets up the peeler: no maximum, no buckets, no adjacency     *)
(* list, no pass through the loop.                                        *)
C11_EmptyGraphReturnsAtOnce ==
    igraph_ecount(graph) = 0 =>
        /\ ~InLoop
        /\ PeelerReset
        /\ (pc = "done" /\ fault \notin {"init", "list_triangles", "unpack",
                                          "get_eids", "resize"})
              => (ret = "IGRAPH_SUCCESS" /\ trussness = EmptyVec)

(* The first call on the graph without edges has returned. *)
C11_Witness ==
    Returned /\ igraph_ecount(graph) = 0 /\ call = "first" /\ fault = "none"

(* C12: when a call is over, by a return or by an exception, each array   *)
(* it initialised was destroyed exactly once and the cleanup stack is     *)
(* empty; no array is ever destroyed twice, and each                      *)
(* IGRAPH_FINALLY_CLEAN takes off the entries of the arrays destroyed     *)
(* just before it.                                                        *)
C12_EveryArrayReleasedOnce ==
    /\ cleanOk
    /\ \A a \in Arrays : destroyed[a] <= 1
    /\ pc \in {"done", "thrown"} =>
          /\ finally_stack = <<>>
          /\ \A a \in Arrays : destroyed[a] = (IF a \in inited THEN 1 ELSE 0)

(* The levels whose bucket holds edge e. *)
BucketsOf(e) == {l \in DOMAIN vec : e \in vec[l]}

(* C13 as stated: during the peeling run, each edge that is not completed *)
(* is in exactly one bucket, the one of its support, and each completed   *)
(* edge is in no bucket.                                                  *)
C13_PendingInOneBucketCompletedInNone ==
    InLoop =>
        \A e \in DOMAIN completed :
            IF completed[e] THEN BucketsOf(e) = {}
            ELSE BucketsOf(e) = {support[e]}

(* C13, amended: during the peeling run, each edge that is neither        *)
(* completed nor the seed in hand is in exactly one bucket, the one of    *)
(* its support; the seed in hand is in no bucket and its support is the   *)
(* level; a completed edge is in no bucket, except that the edges of      *)
(* support 0 stay in bucket 0, so no completed edge comes back into a     *)
(* bucket.                                                                *)
C13_BucketsMatchSupport ==
    InLoop =>
        \A e \in DOMAIN completed :
            IF completed[e]
            THEN BucketsOf(e) = (IF support0[e] = 0 THEN {0} ELSE {})
            ELSE IF pc = "for_j" /\ e = seed
                 THEN BucketsOf(e) = {} /\ support[e] = level
                 ELSE BucketsOf(e) = {support[e]}

(* A seed is in hand, an edge of support 0 is completed and still in      *)
(* bucket 0, a completed seed is in no bucket, and a pending edge sits in *)
(* a bucket below the one it started in.                                  *)
C13_Witness ==
    /\ pc = "for_j"
    /\ ~unresolved
    /\ ~completed[seed]
    /\ \E e \in DOMAIN completed : completed[e] /\ e \in vec[0]
    /\ \E e \in DOMAIN completed : completed[e] /\ support0[e] > 0
    /\ \E e \in DOMAIN completed :
          ~completed[e] /\ e # seed /\ support[e] < support0[e]

C15_DemotionFrame ==
    [][(InLoop /\ InLoop' /\ ~unresolved') =>
         IF pc = "for_j" /\ j' = j + 1
         THEN LET n  == commonNeighbors[j + 1]
                  e1 == igraph_get_eid(graph, fromVertex, n)
                  e2 == igraph_get_eid(graph, toVertex, n)
              IN  /\ {fromVertex, toVertex} =
                        {igraph_edge(graph, seed)[1], igraph_edge(graph, seed)[2]}
                  /\ Adjacent(graph, fromVertex, n)
                  /\ Adjacent(graph, toVertex, n)
                  /\ \A e \in DOMAIN support :
                        IF /\ e \in {e1, e2}
                           /\ ~completed[e1] /\ ~completed[e2]
                           /\ support[e] > level
                        THEN /\ support'[e] = support[e] - 1
                             /\ e \in vec[support[e]]
                             /\ {l \in DOMAIN vec' : e \in vec'[l]} = {support[e] - 1}
                        ELSE /\ support'[e] = support[e]
                             /\ \A l \in DOMAIN vec : e \in vec'[l] <=> e \in vec[l]
         ELSE /\ support' = support
              /\ \A e \in DOMAIN support : \A l \in DOMAIN vec :
                    (e \in vec'[l] <=> e \in vec[l])
                        \/ (pc = "for_level" /\ pc' = "for_j" /\ e = seed' /\ l = level)
      ]_vars

(* The first step for a common neighbour in a run has demoted e1 and left *)
(* e2, whose support is the level, where it was.                          *)
C15_Witness ==
    /\ pc = "for_j"
    /\ ~unresolved
    /\ fault = "none"
    /\ j = 1
    /\ \A e \in DOMAIN completed : completed[e] => support0[e] = 0
    /\ LET n  == commonNeighbors[j]
           e1 == igraph_get_eid(graph, fromVertex, n)
           e2 == igraph_get_eid(graph, toVertex, n)
       IN  /\ support[e1] = support0[e1] - 1
           /\ e1 \in vec[support[e1]]
           /\ support[e2] = support0[e2]
           /\ support[e2] = level

(* C16: the support of a completed edge is not changed by any later step  *)
(* of the loop, at any level.                                             *)
C16_CompletedSupportFrozen ==
    [][(InLoop /\ InLoop' /\ ~unresolved') =>
          \A e \in DOMAIN completed : completed[e] => support'[e] = support[e]
      ]_vars

(* A common neighbour has been handled whose edge e1 is completed with a  *)
(* support above 0, while e2 is pending above the level.                  *)
C16_Witness ==
    /\ pc = "for_j"
    /\ ~unresolved
    /\ j >= 1
    /\ LET n  == commonNeighbors[j]
           e1 == igraph_get_eid(graph, fromVertex, n)
           e2 == igraph_get_eid(graph, toVertex, n)
       IN  /\ completed[e1]
           /\ support[e1] > 0
           /\ ~completed[e2]
           /\ support[e2] > level

(* C17: during the peeling run the support of every edge is at least 0    *)
(* and no step raises it; it is never below the edge's final trussness    *)
(* minus 2: a completed edge has its final value, and in a second call on *)
(* the same graph the final values are those of the first call.           *)
C17_SupportBounds ==
    /\ [](InLoop /\ ~unresolved =>
             \A e \in DOMAIN support :
                 /\ support[e] >= 0
                 /\ support[e] <= support0[e]
                 /\ completed[e] => support[e] >= trussness[e] - 2
                 /\ call = "again" => support[e] >= prev[e] - 2)
    /\ [][(InLoop /\ InLoop' /\ ~unresolved') =>
            \A e \in DOMAIN support : support'[e] <= support[e]]_vars

(* In a second call on the same graph, a pending edge has come down to    *)
(* its final trussness minus 2 and is above the level.                    *)
C17_Witness ==
    /\ InLoop
    /\ ~unresolved
    /\ call = "again"
    /\ \E e \in DOMAIN support :
          /\ ~completed[e]
          /\ support[e] < support0[e]
          /\ support[e] = prev[e] - 2
          /\ support[e] > level

(* C18: the level never goes down and goes up by 1 only when its bucket   *)
(* is empty and every edge of that support is completed; while a level is *)
(* processed no pending edge has a support below it and the buckets of    *)
(* the levels 1 .. level - 1 are empty, so no edge is left in a bucket    *)
(* the loop has passed.                                                   *)
C18_LevelMonotoneNoEdgeBehind ==
    /\ [](InLoop =>
             /\ level >= 1
             /\ \A e \in DOMAIN completed : ~completed[e] => support[e] >= level
             /\ \A l \in DOMAIN vec : (1 <= l /\ l < level) => vec[l] = {})
    /\ [][(InLoop /\ InLoop') =>
            /\ level' >= level
            /\ level' # level =>
                  /\ level' = level + 1
                  /\ vec[level] = {}
                  /\ \A e \in DOMAIN completed : support[e] <= level => completed[e]]_vars

(* An edge that started above the level has been demoted into the bucket  *)
(* of the level being processed, after an edge of that level was          *)
(* completed.                                                             *)
C18_Witness ==
    /\ pc = "for_level"
    /\ ~unresolved
    /\ level >= 2
    /\ \E e \in vec[level] : support0[e] > level
    /\ \E e \in DOMAIN completed : completed[e] /\ support[e] = level

(* What is left to do in the loop: the pending edges, the levels to come, *)
(* the seed to take, the common neighbours to handle.                     *)
LoopMeasure ==
    <<Cardinality({e \in DOMAIN completed : ~completed[e]}),
      max + 1 - level,
      IF pc = "for_level" THEN 1 ELSE 0,
      IF pc = "for_j" THEN Len(commonNeighbors) - j ELSE 0>>

(* A step of the loop is possible. *)
LoopStepEnabled ==
    ENABLED (NextLevel \/ PopSeed \/ Demote \/ DemoteThrows \/ DemoteUnresolved
                \/ Record \/ Return)

(* C19: the loop terminates, whichever edges are popped: in the loop a    *)
(* step is always possible, and each step that stays in the loop lowers   *)
(* LoopMeasure, four numbers that are never negative, in the order of the *)
(* dictionary.  When the loop is left by the return, every edge is        *)
(* completed and the buckets of the levels 1 .. max are empty; the vector *)
(* returned has one entry per edge of the graph and each one was written. *)
C19_TerminatesAllCompleted ==
    /\ [](InLoop => /\ LoopStepEnabled
                    /\ \A i \in 1 .. Len(LoopMeasure) : LoopMeasure[i] >= 0)
    /\ [][(InLoop /\ InLoop') => LexLess(LoopMeasure', LoopMeasure)]_vars
    /\ [][(InLoop /\ pc' = "done" /\ ~unresolved) =>
            /\ ret' = "IGRAPH_SUCCESS"
            /\ \A e \in DOMAIN completed : completed[e]
            /\ \A l \in 1 .. max : vec[l] = {}
            /\ trussness' = trussness]_vars
    /\ [](Returned =>
            /\ DOMAIN trussness = EdgeIds(graph)
            /\ \A e \in EdgeIds(graph) : trussness[e] >= 2)

(* A call has returned on a graph with edges at three different levels of *)
(* initial support, one of which was demoted on the way.                  *)
C19_Witness ==
    /\ Returned
    /\ Cardinality({support0[e] : e \in DOMAIN support0}) >= 3
    /\ \E e \in DOMAIN trussness : trussness[e] < support0[e] + 2

(* A list of vertices names no vertex twice. *)
NoRepeat(q) == \A i \in DOMAIN q : \A k \in DOMAIN q : q[i] = q[k] => i = k

(* C20: on graphs that store self-loops and parallel edges, the neighbour *)
(* lists of the peeler name no vertex twice and no vertex among its own   *)
(* neighbours, the common neighbours of a seed name no vertex twice, and  *)
(* a step for a common neighbour that was already handled for the seed in *)
(* hand demotes nothing.                                                  *)
C20_NeighboursOnceEach ==
    /\ [](InLoop =>
             /\ \A v \in DOMAIN adjlist :
                   /\ NoRepeat(adjlist[v])
                   /\ \A i \in DOMAIN adjlist[v] : adjlist[v][i] # v
             /\ pc = "for_j" => NoRepeat(commonNeighbors))
    /\ [][(pc = "for_j" /\ pc' = "for_j" /\ j' = j + 1
             /\ \E i \in 1 .. j : commonNeighbors[i] = commonNeighbors[j + 1])
            => support' = support]_vars

====
